---- MODULE Spec2Model ----
(***************************************************************************)
(* A model of the three proxy servers of genevva/xay:                      *)
(*   "proxy"   - src/index.ts, Bun.serve at line 112 (parseCredentials)    *)
(*   "server"  - src/index.ts, Bun.serve at line 305 (extractAnthropic-    *)
(*               Config)                                                   *)
(*   "part000" - src/unnamed/part_000, serve at line 52 (extractCreds)     *)
(* One request is followed from its arrival to its response, and, in       *)
(* streaming mode, to the end of the outbound event stream.                *)
(*                                                                         *)
(* Strings are sequences of one-character strings, so that indexOf,        *)
(* slice, trim, toLowerCase, startsWith and endsWith are computed as the   *)
(* JavaScript code computes them.                                          *)
(***************************************************************************)
EXTENDS Integers, Sequences, FiniteSets, TLC

VARIABLES
    variant,      \* which of the three servers handles the request
    req,          \* the HTTP request: method, path, headers, body
    pc,           \* position of the fetch handler
    creds,        \* result of credential extraction
    client,       \* the Anthropic client built for the request
    upstream,     \* the upstream call: issued calls, request document, events
    stream,       \* the outbound ReadableStream: state, queue, history
    response      \* the HTTP response returned by fetch

vars == <<variant, req, pc, creds, client, upstream, stream, response>>

-----------------------------------------------------------------------------
(* Bounds of the model *)

\* the longest header value, counted in pieces of HeaderPieces
MaxPieces == 4

\* the longest upstream event sequence
MaxEvents == 3

-----------------------------------------------------------------------------
(* JavaScript string operations on sequences of characters *)

Min(S) == CHOOSE x \in S : \A y \in S : x <= y

Max(S) == CHOOSE x \in S : \A y \in S : x >= y

\* String.prototype.slice(from) and substring(from), 0-based, from >= 0
SliceFrom(s, from) == SubSeq(s, from + 1, Len(s))

\* String.prototype.slice(from, to) and substring(from, to), 0 <= from <= to
SliceTo(s, from, to) == SubSeq(s, from + 1, to)

\* String.prototype.indexOf(p): 0-based index of the first occurrence, or -1
IndexOf(s, p) ==
    LET at == {i \in 0..(Len(s) - Len(p)) : SubSeq(s, i + 1, i + Len(p)) = p}
    IN  IF at = {} THEN -1 ELSE Min(at)

Includes(s, p) == IndexOf(s, p) # -1

StartsWith(s, p) == Len(s) >= Len(p) /\ SubSeq(s, 1, Len(p)) = p

EndsWith(s, p) == Len(s) >= Len(p) /\ SubSeq(s, Len(s) - Len(p) + 1, Len(s)) = p

\* String.prototype.trim(): whitespace removed at both ends
Trim(s) ==
    LET ink == {i \in 1..Len(s) : s[i] # " "}
    IN  IF ink = {} THEN <<>> ELSE SubSeq(s, Min(ink), Max(ink))

LowerChar(c) ==
    CASE c = "B" -> "b"
      [] c = "C" -> "c"
      [] OTHER   -> c

\* String.prototype.toLowerCase()
ToLowerCase(s) == [i \in 1..Len(s) |-> LowerChar(s[i])]

-----------------------------------------------------------------------------
(* String literals of the source *)

StrCc == <<"c", "c", ":">>

StrBang == <<"!">>

StrSlash == <<"/">>

StrBearerLower == <<"b", "e", "a", "r", "e", "r", " ">>

StrHttp == <<"h", "t", "t", "p">>

StrHttpsScheme == <<"h", "t", "t", "p", "s", ":", "/", "/">>

\* 'https://api.anthropic.com'
DefaultBaseURL ==
    StrHttpsScheme \o <<"a", "p", "i", ".", "a", "n", "t", "h", "r", "o", "p",
                        "i", "c", ".", "c", "o", "m">>

-----------------------------------------------------------------------------
(* Headers.  A Headers object iterates its entries sorted by lower-cased    *)
(* name, so "authorization" comes before "x-api-key"; get() of an absent    *)
(* name is null, modelled as [found |-> FALSE].                             *)

NoValue == [found |-> FALSE, value |-> <<>>]

Found(v) == [found |-> TRUE, value |-> v]

\* Headers.get(name)
HeadersGet(headers, name) ==
    LET at == {i \in 1..Len(headers) : headers[i].name = name}
    IN  IF at = {} THEN NoValue ELSE Found(headers[Min(at)].value)

\* a JavaScript string used as a condition: null and "" are falsy
Truthy(v) == v.found /\ v.value # <<>>

-----------------------------------------------------------------------------
(* Credential extraction: src/index.ts, first server *)

\* extractAuthHeaders(headers): the header value, or null
extractAuthHeaders(headers) ==
    LET authHeader   == HeadersGet(headers, "authorization")
        apiKeyHeader == HeadersGet(headers, "x-api-key")
    IN  IF Truthy(authHeader) /\ Len(Trim(authHeader.value)) > 0
        THEN authHeader
        ELSE IF Truthy(apiKeyHeader) /\ Len(Trim(apiKeyHeader.value)) > 0
        THEN apiKeyHeader
        ELSE NoValue

\* the last lines of parseCredentials: scheme prefix and trailing slash
NormalizeBaseURL(baseURL) ==
    LET withScheme == IF ~StartsWith(baseURL, StrHttp)
                      THEN StrHttpsScheme \o baseURL
                      ELSE baseURL
    IN  IF EndsWith(withScheme, StrSlash)
        THEN SliceTo(withScheme, 0, Len(withScheme) - 1)
        ELSE withScheme

\* parseCredentials with the whole cleaned string, "cc:" included, kept as the
\* key when no "!" follows
parseCredentialsKeepsPrefix(authString) ==
    LET cleanAuth == IF StartsWith(ToLowerCase(authString), StrBearerLower)
                     THEN Trim(SliceFrom(authString, 7))
                     ELSE authString
        ccIndex == IndexOf(cleanAuth, StrCc)
        contentAfterCc == SliceFrom(cleanAuth, ccIndex + 3)
        separatorIndex == IndexOf(contentAfterCc, StrBang)
        part1 == SliceTo(contentAfterCc, 0, separatorIndex)
        part2 == SliceFrom(contentAfterCc, separatorIndex + 1)
        split == ccIndex # -1 /\ separatorIndex # -1 /\ part1 # <<>> /\ part2 # <<>>
    IN  [apiKey |-> IF split THEN part1 ELSE cleanAuth,
         baseURL |-> NormalizeBaseURL(IF split THEN part2 ELSE DefaultBaseURL)]

\* parseCredentials(authString): always returns { apiKey, baseURL }
parseCredentials(authString) ==
    LET cleanAuth == IF StartsWith(ToLowerCase(authString), StrBearerLower)
                     THEN Trim(SliceFrom(authString, 7))
                     ELSE authString
        ccIndex == IndexOf(cleanAuth, StrCc)
        contentAfterCc == SliceFrom(cleanAuth, ccIndex + 3)
        separatorIndex == IndexOf(contentAfterCc, StrBang)
        part1 == SliceTo(contentAfterCc, 0, separatorIndex)
        part2 == SliceFrom(contentAfterCc, separatorIndex + 1)
        split == ccIndex # -1 /\ separatorIndex # -1 /\ part1 # <<>> /\ part2 # <<>>
        apiKey == IF ccIndex = -1 THEN cleanAuth
                  ELSE IF split THEN part1 ELSE contentAfterCc
        baseURL == IF split THEN part2 ELSE DefaultBaseURL
    IN  [apiKey |-> apiKey, baseURL |-> NormalizeBaseURL(baseURL)]

-----------------------------------------------------------------------------
(* Credential extraction: src/index.ts, second server *)

\* the for loop of extractAnthropicConfig and of extractCreds: the first
\* authorization or x-api-key entry whose value includes "cc:"
FirstCcHeader(headers) ==
    LET at == {i \in 1..Len(headers) :
                  /\ headers[i].name \in {"authorization", "x-api-key"}
                  /\ headers[i].value # <<>>
                  /\ Includes(headers[i].value, StrCc)}
    IN  IF at = {} THEN NoValue ELSE Found(headers[Min(at)].value)

NullConfig == [ok |-> FALSE, apiKey |-> <<>>, baseURL |-> <<>>]

\* extractAnthropicConfig(headers): { apiKey, baseURL } or null
extractAnthropicConfig(headers) ==
    LET raw == FirstCcHeader(headers)
        rawHeaderValue == raw.value
        ccIndex == IndexOf(rawHeaderValue, StrCc)
        configPart == Trim(SliceFrom(rawHeaderValue, ccIndex + 3))
        bangIndex == IndexOf(configPart, StrBang)
        apiKey == Trim(SliceTo(configPart, 0, bangIndex))
        baseURL == Trim(SliceFrom(configPart, bangIndex + 1))
    IN  IF ~Truthy(raw) THEN NullConfig
        ELSE IF ccIndex = -1 THEN NullConfig
        ELSE IF configPart = <<>> THEN NullConfig
        ELSE IF bangIndex = -1 THEN NullConfig
        ELSE IF apiKey = <<>> \/ baseURL = <<>> THEN NullConfig
        ELSE [ok |-> TRUE, apiKey |-> apiKey, baseURL |-> baseURL]

-----------------------------------------------------------------------------
(* Credential extraction: src/unnamed/part_000 *)

ErrMissingBang == "invalid cc header: missing \"!\" separator"

ErrEmptyHalf == "invalid cc header: empty token or base URL"

NoCreds(error) ==
    [hasCreds |-> FALSE, authToken |-> <<>>, baseURL |-> <<>>, error |-> error]

\* extractCreds(headers): {}, { error } or { creds }
extractCreds(headers) ==
    LET cand == FirstCcHeader(headers)
        candidate == cand.value
        lowerVal == ToLowerCase(candidate)
        idx == IndexOf(lowerVal, StrCc)
        payload == SliceFrom(candidate, idx + 3)
        bangIdx == IndexOf(payload, StrBang)
        authToken == Trim(SliceTo(payload, 0, bangIdx))
        baseURL == Trim(SliceFrom(payload, bangIdx + 1))
    IN  IF ~Truthy(cand) THEN NoCreds("none")
        ELSE IF idx = -1 THEN NoCreds("none")
        ELSE IF bangIdx = -1 THEN NoCreds(ErrMissingBang)
        ELSE IF authToken = <<>> \/ baseURL = <<>> THEN NoCreds(ErrEmptyHalf)
        ELSE [hasCreds |-> TRUE, authToken |-> authToken, baseURL |-> baseURL,
              error |-> "none"]

-----------------------------------------------------------------------------
(* Requests, JSON bodies and upstream behaviour *)

Variants == {"proxy", "server", "part000"}

Methods == {"POST", "GET", "OPTIONS"}

Paths == {"/v1/messages", "/v1/complete"}

\* values of the "stream" field of a JSON body; "absent" is a body without it
StreamValues == {"absent", "true", "false", "num1", "str_true", "null"}

NoDoc == [model |-> "none", stream |-> "absent"]

\* the JSON value null as a parsed document: it is not an object, and reading
\* a property of it throws a TypeError
NullDoc == [model |-> "null", stream |-> "absent"]

\* a body that req.json() parses, as the parsed document
JsonBody(v) == [json |-> TRUE, doc |-> [model |-> "x", stream |-> v]]

\* a body that req.json() rejects
NotJsonBody == [json |-> FALSE, doc |-> NoDoc]

\* the body "null", which req.json() parses
NullBody == [json |-> TRUE, doc |-> NullDoc]

Bodies == {NotJsonBody, NullBody} \cup {JsonBody(v) : v \in StreamValues}

\* JavaScript truthiness of a "stream" value
TruthyValue(v) == v \in {"true", "num1", "str_true"}

EventTypes == {"content_block_delta", "message_stop"}

\* the upstream's answers to messages.create: a failure carries the fields
\* the handlers read (status 0 and type "none" stand for an absent field)
UpstreamFailures ==
    [status : {0, 429}, etype : {"none", "rate_limit_error"}, message : {"boom"}]

NoFailure == [status |-> 0, etype |-> "none", message |-> "none"]

UpstreamDocument == [id |-> "msg_1", type |-> "message"]

\* what JSON.stringify makes of the SDK's Stream object
StreamObjectDocument == [id |-> "none", type |-> "stream_object"]

-----------------------------------------------------------------------------
(* Responses *)

NoError == [type |-> "none", message |-> "none"]

NoReply == [id |-> "none", type |-> "none"]

NoResponse ==
    [status |-> 0, contentType |-> "none", kind |-> "none", type |-> "none",
     error |-> NoError, hasError |-> FALSE, raw |-> FALSE, doc |-> NoReply]

\* new Response(text, { status })
TextResponse(status) ==
    [NoResponse EXCEPT !.status = status, !.contentType = "text/plain",
                       !.kind = "text"]

\* new Response(null, { headers }): status 200, no body
EmptyResponse == [NoResponse EXCEPT !.status = 200, !.kind = "empty"]

\* a JSON body { error: { type?, message } } without a top-level "type"
ErrorOnlyResponse(status, etype, message) ==
    [NoResponse EXCEPT !.status = status, !.contentType = "application/json",
                       !.kind = "json", !.hasError = TRUE,
                       !.error = [type |-> etype, message |-> message]]

\* errorJSON(type, message) of part_000 under a status
errorJSON(status, etype, message) ==
    [ErrorOnlyResponse(status, etype, message) EXCEPT !.type = "error"]

\* JSON.stringify(result) under status 200
DocumentResponse(doc) ==
    [NoResponse EXCEPT !.status = 200, !.contentType = "application/json",
                       !.kind = "json", !.doc = doc]

\* JSON.stringify(apiError.error || { message: apiError.message }): the
\* upstream's own error object when the failure carries one, else { message }
RawUpstreamErrorResponse(status, f) ==
    [NoResponse EXCEPT !.status = status, !.contentType = "application/json",
                       !.kind = "json", !.raw = f.etype # "none",
                       !.error = [type |-> f.etype, message |-> f.message]]

\* new Response(readable, { headers }) of a streaming answer
EventStreamResponse ==
    [NoResponse EXCEPT !.status = 200, !.contentType = "text/event-stream",
                       !.kind = "sse"]

-----------------------------------------------------------------------------
(* The request's state *)

NoCredentials ==
    [done |-> FALSE, ok |-> FALSE, failure |-> "none",
     token |-> <<>>, baseURL |-> <<>>]

NoClient == [built |-> FALSE, token |-> <<>>, baseURL |-> <<>>]

NoUpstream ==
    [calls |-> 0, request |-> NoDoc, mode |-> "none", failure |-> NoFailure,
     pulls |-> 0, events |-> <<>>, ended |-> "no"]

NoStream ==
    [state |-> "none", closeRequested |-> FALSE, cancelled |-> FALSE,
     queue |-> <<>>, frames |-> <<>>, delivered |-> <<>>, failedWrites |-> 0]

Header(name, value) == [name |-> name, value |-> value]

\* a Headers object with the given authorization and x-api-key values, in
\* iteration order; an absent header is [found |-> FALSE]
HeadersOf(auth, key) ==
    (IF auth.found THEN <<Header("authorization", auth.value)>> ELSE <<>>)
    \o (IF key.found THEN <<Header("x-api-key", key.value)>> ELSE <<>>)

StrBearer == <<"B", "e", "a", "r", "e", "r", " ">>

StrCcUpper == <<"C", "c", ":">>

\* authorization values of the requests of Spec:
\* "", "k", "cc:k", "cc:k!u", "Bearer cc:k!u/", "cc:!u", "cc:k!", "cc: !u",
\* "cc:k!u!u", "Cc:k!cc:j!u!u"
AuthorizationValues ==
    { <<>>,
      <<"k">>,
      StrCc \o <<"k">>,
      StrCc \o <<"k", "!", "u">>,
      StrBearer \o StrCc \o <<"k", "!", "u", "/">>,
      StrCc \o <<"!", "u">>,
      StrCc \o <<"k", "!">>,
      StrCc \o <<" ", "!", "u">>,
      StrCc \o <<"k", "!", "u", "!", "u">>,
      StrCcUpper \o <<"k", "!">> \o StrCc \o <<"j", "!", "u", "!", "u">> }

\* x-api-key values of the requests of Spec: "j", "cc:j!v"
ApiKeyValues == { <<"j">>, StrCc \o <<"j", "!", "v">> }

HeaderSets ==
    { HeadersOf(a, k) :
        a \in {NoValue} \cup {Found(v) : v \in AuthorizationValues},
        k \in {NoValue} \cup {Found(v) : v \in ApiKeyValues} }

Requests ==
    [method : Methods, path : Paths, headers : HeaderSets, body : Bodies]

Init ==
    /\ variant \in Variants
    /\ req \in Requests
    /\ pc = "Received"
    /\ creds = NoCredentials
    /\ client = NoClient
    /\ upstream = NoUpstream
    /\ stream = NoStream
    /\ response = NoResponse

Respond(r) ==
    /\ response' = r
    /\ pc' = "Responded"

-----------------------------------------------------------------------------
(* The fetch handlers, step by step *)

\* the method and path checks at the head of each fetch
RouteResponse(v, method, path) ==
    CASE v = "proxy" ->
           IF method = "OPTIONS" THEN EmptyResponse
           ELSE IF method # "POST" THEN TextResponse(405)
           ELSE NoResponse
      [] v = "server" ->
           IF method # "POST" \/ path # "/v1/messages"
           THEN ErrorOnlyResponse(404, "invalid_request_error",
                                  "Only POST /v1/messages is supported by this proxy.")
           ELSE NoResponse
      [] v = "part000" ->
           IF path = "/v1/messages" /\ method = "POST"
           THEN NoResponse
           ELSE errorJSON(404, "not_found", "Not found")

Route ==
    /\ pc = "Received"
    /\ LET r == RouteResponse(variant, req.method, req.path)
       IN  IF r = NoResponse
           THEN pc' = "Routed" /\ response' = response
           ELSE Respond(r)
    /\ UNCHANGED <<variant, req, creds, client, upstream, stream>>

\* the credentials each fetch obtains from the headers
ExtractCredentials(v, headers) ==
    CASE v = "proxy" ->
           LET rawAuth == extractAuthHeaders(headers)
               parsed  == parseCredentials(rawAuth.value)
           IN  IF ~Truthy(rawAuth)
               THEN [NoCredentials EXCEPT !.done = TRUE, !.failure = "missing"]
               ELSE [done |-> TRUE, ok |-> TRUE, failure |-> "none",
                     token |-> parsed.apiKey, baseURL |-> parsed.baseURL]
      [] v = "server" ->
           LET cfg == extractAnthropicConfig(headers)
           IN  IF ~cfg.ok
               THEN [NoCredentials EXCEPT !.done = TRUE, !.failure = "null"]
               ELSE [done |-> TRUE, ok |-> TRUE, failure |-> "none",
                     token |-> cfg.apiKey, baseURL |-> cfg.baseURL]
      [] v = "part000" ->
           LET got == extractCreds(headers)
           IN  IF got.error # "none"
               THEN [NoCredentials EXCEPT !.done = TRUE, !.failure = got.error]
               ELSE IF ~got.hasCreds
               THEN [NoCredentials EXCEPT !.done = TRUE, !.failure = "missing"]
               ELSE [done |-> TRUE, ok |-> TRUE, failure |-> "none",
                     token |-> got.authToken, baseURL |-> got.baseURL]

MsgInvalidCredentials ==
    "Missing or invalid credentials. Expected \"cc:<ANTHROPIC_AUTH_TOKEN>!<ANTHROPIC_BASE_URL>\" in Authorization or X-API-Key header."

MsgMissingCredentials ==
    "Missing credentials: expected \"Authorization\" or \"X-API-Key\" header containing \"cc:AUTH_TOKEN!BASE_URL\""

\* the response each fetch gives to a failed extraction
CredentialFailureResponse(v, failure) ==
    CASE v = "proxy" ->
           ErrorOnlyResponse(401, "authentication_error", "Missing API key")
      [] v = "server" ->
           ErrorOnlyResponse(401, "authentication_error", MsgInvalidCredentials)
      [] v = "part000" ->
           IF failure = "missing"
           THEN errorJSON(401, "authentication_error", MsgMissingCredentials)
           ELSE errorJSON(400, "invalid_request_error", failure)

Authenticate ==
    /\ pc = "Routed"
    /\ LET c == ExtractCredentials(variant, req.headers)
       IN  /\ creds' = c
           /\ IF c.ok
              THEN pc' = "CredentialExtracted" /\ response' = response
              ELSE Respond(CredentialFailureResponse(variant, c.failure))
    /\ UNCHANGED <<variant, req, client, upstream, stream>>

\* new Anthropic({ apiKey | authToken, baseURL })
NewAnthropic(token, baseURL) ==
    [built |-> TRUE, token |-> token, baseURL |-> baseURL]

\* the first server builds the client before it reads the body, the other two
\* after
BuildClient ==
    /\ \/ variant = "proxy" /\ pc = "CredentialExtracted"
       \/ variant # "proxy" /\ pc = "BodyParsed"
    /\ client' = NewAnthropic(creds.token, creds.baseURL)
    /\ pc' = "ClientBuilt"
    /\ UNCHANGED <<variant, req, creds, upstream, stream, response>>

\* the response each fetch gives when req.json() throws
InvalidJsonResponse(v) ==
    CASE v = "proxy"   -> TextResponse(400)
      [] v = "server"  -> ErrorOnlyResponse(400, "invalid_request_error",
                                            "Request body must be valid JSON.")
      [] v = "part000" -> errorJSON(400, "invalid_request_error",
                                    "Request body must be valid JSON")

ParseBody ==
    /\ \/ variant = "proxy" /\ pc = "ClientBuilt"
       \/ variant # "proxy" /\ pc = "CredentialExtracted"
    /\ IF req.body.json
       THEN pc' = "BodyParsed" /\ response' = response
       ELSE Respond(InvalidJsonResponse(variant))
    /\ UNCHANGED <<variant, req, creds, client, upstream, stream>>

\* isStreaming / isStream of each fetch; the second server has no streaming
\* branch
SelectMode(v, doc) ==
    CASE v = "proxy"   -> IF doc.stream = "true" THEN "streaming" ELSE "buffered"
      [] v = "server"  -> "buffered"
      [] v = "part000" -> IF TruthyValue(doc.stream) THEN "streaming" ELSE "buffered"

\* the argument of client.messages.create
UpstreamRequest(v, doc) ==
    IF v = "part000" /\ SelectMode(v, doc) = "streaming"
    THEN [doc EXCEPT !.stream = "true"]
    ELSE doc

\* body.stream / payload.stream throws on a body that is null: the first
\* server and part_000 read it before the call, the second server never does
ReadsStreamField(v) == v \in {"proxy", "part000"}

\* what the runtime answers when fetch rejects: status 500, a body of its own
UnhandledErrorResponse == [NoResponse EXCEPT !.status = 500, !.kind = "runtime"]

\* the answer to a TypeError thrown in the handler: the outer catch of the
\* first server; part_000 has none and its fetch rejects
InternalFailureResponse(v) ==
    IF v = "proxy"
    THEN ErrorOnlyResponse(500, "none", "Internal Proxy Error")
    ELSE UnhandledErrorResponse

\* the mode is read off the body and client.messages.create(...) is called
InvokeUpstream ==
    /\ \/ variant = "proxy" /\ pc = "BodyParsed"
       \/ variant # "proxy" /\ pc = "ClientBuilt"
    /\ IF ReadsStreamField(variant) /\ req.body.doc = NullDoc
       THEN /\ Respond(InternalFailureResponse(variant))
            /\ upstream' = upstream
       ELSE /\ upstream' = [upstream EXCEPT
                              !.calls = @ + 1,
                              !.mode = SelectMode(variant, req.body.doc),
                              !.request = UpstreamRequest(variant, req.body.doc)]
            /\ pc' = "UpstreamInvoked"
            /\ response' = response
    /\ UNCHANGED <<variant, req, creds, client, stream>>

\* catch blocks that answer every upstream failure with status 500
UpstreamFailureResponseAlways500(v, f) ==
    CASE v = "proxy" -> RawUpstreamErrorResponse(500, f)
      [] v = "server" -> ErrorOnlyResponse(500, "upstream_error", f.message)
      [] v = "part000" ->
           errorJSON(500, IF f.etype = "none" THEN "api_error" ELSE f.etype,
                     f.message)

\* the catch blocks around messages.create
UpstreamFailureResponse(v, f) ==
    CASE v = "proxy" ->
           RawUpstreamErrorResponse(IF f.status = 0 THEN 500 ELSE f.status, f)
      [] v = "server" ->
           ErrorOnlyResponse(IF f.status = 0 THEN 500 ELSE f.status,
                             "upstream_error", f.message)
      [] v = "part000" ->
           errorJSON(IF f.status = 0 THEN 500 ELSE f.status,
                     IF f.etype = "none" THEN "api_error" ELSE f.etype,
                     f.message)

\* a handler that calls messages.create again when it rejects
UpstreamFailsThenRetries ==
    /\ pc = "UpstreamInvoked"
    /\ upstream.calls < 3
    /\ upstream' = [upstream EXCEPT !.calls = @ + 1]
    /\ UNCHANGED <<variant, req, pc, creds, client, stream, response>>

\* messages.create rejects
UpstreamFails ==
    /\ pc = "UpstreamInvoked"
    /\ \E f \in UpstreamFailures :
         /\ upstream' = [upstream EXCEPT !.failure = f]
         /\ Respond(UpstreamFailureResponse(variant, f))
    /\ UNCHANGED <<variant, req, creds, client, stream>>

\* messages.create resolves to one document, or, in the second server asked
\* for a stream, to the Stream object it serialises
UpstreamReturnsDocument ==
    /\ pc = "UpstreamInvoked"
    /\ upstream.mode = "buffered"
    /\ Respond(DocumentResponse(IF upstream.request.stream = "true"
                                THEN StreamObjectDocument
                                ELSE UpstreamDocument))
    /\ UNCHANGED <<variant, req, creds, client, upstream, stream>>

-----------------------------------------------------------------------------
(* The outbound ReadableStream and its controller *)

\* a frame that names every event "message"
SseFrameFixedName(event) == [event |-> "message", data |-> event]

\* `event: ${event.type}\ndata: ${JSON.stringify(event)}\n\n`
SseFrame(event) == [event |-> event.type, data |-> event]

\* 'event: ping\ndata: {"type": "ping"}\n\n'
PingFrame == [event |-> "ping", data |-> [type |-> "ping"]]

\* the error frame of part_000
StreamErrorFrame(message) ==
    [event |-> "error", data |-> [type |-> "stream_error", message |-> message]]

\* controller.enqueue and controller.close throw a TypeError unless this holds
CanCloseOrEnqueue(st) == st.state = "readable" /\ ~st.closeRequested

\* controller.enqueue(chunk) on a stream that accepts it
Enqueue(st, frame) ==
    [st EXCEPT !.queue = Append(@, frame), !.frames = Append(@, frame)]

\* controller.close() on a stream that accepts it
Close(st) ==
    IF st.queue = <<>>
    THEN [st EXCEPT !.state = "closed"]
    ELSE [st EXCEPT !.closeRequested = TRUE]

\* controller.error(err): the queue is dropped; nothing on a finished stream
Error(st) ==
    IF st.state # "readable"
    THEN st
    ELSE [st EXCEPT !.state = "errored", !.queue = <<>>]

\* an enqueue that threw
FailedWrite(st) == [st EXCEPT !.failedWrites = @ + 1]

\* messages.create resolves to the event stream: the ReadableStream is built,
\* start() asks for the first event, and the response is returned
UpstreamReturnsStream ==
    /\ pc = "UpstreamInvoked"
    /\ upstream.mode = "streaming"
    /\ stream' = [NoStream EXCEPT !.state = "readable"]
    /\ upstream' = [upstream EXCEPT !.pulls = 1]
    /\ response' = EventStreamResponse
    /\ pc' = "Streaming"
    /\ UNCHANGED <<variant, req, creds, client>>

\* the body of the for await loop for one event, and the catch block when
\* its enqueue throws
OnEvent(v, st, event) ==
    IF CanCloseOrEnqueue(st)
    THEN Enqueue(st, SseFrame(event))
    ELSE IF v = "proxy"
    THEN Error(FailedWrite(st))
    ELSE FailedWrite(FailedWrite(st))

\* the upstream yields its next event
StreamEvent ==
    /\ pc = "Streaming"
    /\ Len(upstream.events) < MaxEvents
    /\ \E t \in EventTypes :
         LET event == [type |-> t, index |-> Len(upstream.events) + 1]
             accepted == CanCloseOrEnqueue(stream)
         IN  /\ stream' = OnEvent(variant, stream, event)
             /\ upstream' = [upstream EXCEPT
                               !.events = Append(@, event),
                               !.pulls = IF accepted THEN @ + 1 ELSE @]
             /\ pc' = IF accepted THEN "Streaming" ELSE "Responded"
    /\ UNCHANGED <<variant, req, creds, client, response>>

\* code after the loop that ends the stream as the catch block does
OnExhaustedLikeFailure(v, st) ==
    IF v = "proxy"
    THEN Error(st)
    ELSE IF CanCloseOrEnqueue(st)
         THEN Close(Enqueue(st, StreamErrorFrame("boom")))
         ELSE FailedWrite(st)

\* the code after the loop, and the catch block when it throws
OnExhausted(v, st) ==
    IF v = "proxy"
    THEN IF CanCloseOrEnqueue(st)
         THEN Close(Enqueue(st, PingFrame))
         ELSE Error(FailedWrite(st))
    ELSE IF CanCloseOrEnqueue(st)
         THEN Close(st)
         ELSE FailedWrite(st)

\* the upstream sequence is exhausted
StreamEnd ==
    /\ pc = "Streaming"
    /\ stream' = OnExhausted(variant, stream)
    /\ upstream' = [upstream EXCEPT !.ended = "exhausted"]
    /\ pc' = "Responded"
    /\ UNCHANGED <<variant, req, creds, client, response>>

\* a catch block that swallows the error and leaves the stream as it is
OnUpstreamErrorSwallowed(v, st, message) == st

\* the catch block when the upstream iteration throws
OnUpstreamError(v, st, message) ==
    IF v = "proxy"
    THEN Error(st)
    ELSE IF CanCloseOrEnqueue(st)
         THEN Close(Enqueue(st, StreamErrorFrame(message)))
         ELSE FailedWrite(st)

\* the upstream sequence raises
StreamError ==
    /\ pc = "Streaming"
    /\ stream' = OnUpstreamError(variant, stream, "boom")
    /\ upstream' = [upstream EXCEPT !.ended = "raised"]
    /\ pc' = "Responded"
    /\ UNCHANGED <<variant, req, creds, client, response>>

\* the HTTP transport takes the next frame of the response body
ConsumerRead ==
    /\ stream.state = "readable"
    /\ stream.queue # <<>>
    /\ stream' = [stream EXCEPT
                    !.queue = Tail(@),
                    !.delivered = Append(@, Head(stream.queue)),
                    !.state = IF stream.closeRequested /\ Tail(stream.queue) = <<>>
                              THEN "closed" ELSE @]
    /\ UNCHANGED <<variant, req, pc, creds, client, upstream, response>>

\* the caller disconnects: the response body is cancelled
ConsumerCancel ==
    /\ stream.state = "readable"
    /\ stream' = [stream EXCEPT !.state = "closed", !.cancelled = TRUE,
                                !.queue = <<>>]
    /\ UNCHANGED <<variant, req, pc, creds, client, upstream, response>>

-----------------------------------------------------------------------------

Next ==
    \/ Route
    \/ Authenticate
    \/ BuildClient
    \/ ParseBody
    \/ InvokeUpstream
    \/ UpstreamFails
    \/ UpstreamReturnsDocument
    \/ UpstreamReturnsStream
    \/ StreamEvent
    \/ StreamEnd
    \/ StreamError
    \/ ConsumerRead
    \/ ConsumerCancel

Spec == Init /\ [][Next]_vars

\* the HTTP transport keeps taking the frames the response body holds
SpecLive == Spec /\ WF_vars(ConsumerRead)

-----------------------------------------------------------------------------
(* Credential extraction over every header value of a bounded grammar: the  *)
(* request is the one route every server accepts, with one authorization    *)
(* header, followed until the client is built.                              *)

HeaderPieces ==
    { StrCc, StrCcUpper, StrBang, StrSlash, StrHttpsScheme, <<" ">>, <<"k">> }

HeaderLeads == { <<>>, StrBearer }

RECURSIVE PieceStrings(_)
PieceStrings(n) ==
    IF n = 0
    THEN { <<>> }
    ELSE LET shorter == PieceStrings(n - 1)
         IN  shorter \cup { s \o p : s \in shorter, p \in HeaderPieces }

\* a header value reaches the handler without leading or trailing whitespace
HeaderValues ==
    { v \in { lead \o s : lead \in HeaderLeads, s \in PieceStrings(MaxPieces) } :
        Trim(v) = v }

InitCreds ==
    /\ variant \in Variants
    /\ req \in [method : {"POST"}, path : {"/v1/messages"},
                headers : { HeadersOf(Found(v), NoValue) : v \in HeaderValues },
                body : {JsonBody("absent")}]
    /\ pc = "Received"
    /\ creds = NoCredentials
    /\ client = NoClient
    /\ upstream = NoUpstream
    /\ stream = NoStream
    /\ response = NoResponse

NextCreds ==
    \/ Route
    \/ Authenticate
    \/ ParseBody
    \/ BuildClient

SpecCreds == InitCreds /\ [][NextCreds]_vars

-----------------------------------------------------------------------------
(* Vocabulary of the properties: the credential grammar "cc:TOKEN!BASEURL"  *)
(* as the specification words it                                            *)

\* the request carries one credential header, authorization
SingleCredential ==
    Len(req.headers) = 1 /\ req.headers[1].name = "authorization"

CredentialValue == req.headers[1].value

\* no header carries a non-empty value
CredentialMissing == \A i \in 1..Len(req.headers) : req.headers[i].value = <<>>

\* the first non-empty value in header order
SelectedValue ==
    req.headers[Min({i \in 1..Len(req.headers) : req.headers[i].value # <<>>})].value

\* the text after the first "cc:"
PayloadOf(v) == SliceFrom(v, IndexOf(v, StrCc) + 3)

HasBang(v) == Includes(PayloadOf(v), StrBang)

TokenHalf(v) == SliceTo(PayloadOf(v), 0, IndexOf(PayloadOf(v), StrBang))

UrlHalf(v) == SliceFrom(PayloadOf(v), IndexOf(PayloadOf(v), StrBang) + 1)

BangCount(v) == Cardinality({i \in 1..Len(PayloadOf(v)) : PayloadOf(v)[i] = "!"})

EmptyHalf(v) == Trim(TokenHalf(v)) = <<>> \/ Trim(UrlHalf(v)) = <<>>

Malformed(v) == Includes(v, StrCc) /\ (~HasBang(v) \/ EmptyHalf(v))

WellFormed(v) == Includes(v, StrCc) /\ HasBang(v) /\ ~EmptyHalf(v)

StripSlash(u) == IF EndsWith(u, StrSlash) THEN SliceTo(u, 0, Len(u) - 1) ELSE u

\* normalize of the specification: https:// when no scheme, one trailing / off
SpecNormalize(u) ==
    StripSlash(IF IndexOf(u, <<":", "/", "/">>) > 0 THEN u ELSE StrHttpsScheme \o u)

\* "Bearer cc:T!U" with non-empty T and U that carry no outer whitespace
BearerForm(v) ==
    /\ StartsWith(v, StrBearer \o StrCc)
    /\ HasBang(v)
    /\ TokenHalf(v) # <<>> /\ Trim(TokenHalf(v)) = TokenHalf(v)
    /\ UrlHalf(v) # <<>> /\ Trim(UrlHalf(v)) = UrlHalf(v)

Streamed == upstream.mode = "streaming" /\ stream.state # "none"

\* the frames the outbound stream has carried or holds
Outbound == stream.delivered \o stream.queue

-----------------------------------------------------------------------------
(* Properties *)

\* C1: in streaming mode, while the upstream has not raised and the caller
\* has not cancelled, the outbound stream carries one frame per upstream
\* event received so far, in upstream order, each named by its event's type
\* and carrying that event; nothing else is on the stream but, after
\* exhaustion, the closing ping frame of the first server.  Holding in every
\* state, the frame of event i is on the stream before event i+1 arrives.
C1_OneFramePerEvent ==
    (Streamed /\ ~stream.cancelled /\ upstream.ended # "raised") =>
        LET n == Len(upstream.events)
        IN  /\ Outbound = stream.frames
            /\ Len(stream.frames) >= n
            /\ \A i \in 1..n :
                 /\ stream.frames[i].event = upstream.events[i].type
                 /\ stream.frames[i].data = upstream.events[i]
            /\ upstream.pulls <= n + 1
            /\ Len(stream.frames) =
                 IF variant = "proxy" /\ upstream.ended = "exhausted"
                 THEN n + 1 ELSE n

\* C1 witness: an exhausted stream of two events or more, both types seen,
\* all of it taken by the consumer
C1_Witness ==
    /\ Streamed /\ ~stream.cancelled
    /\ upstream.ended = "exhausted"
    /\ Len(upstream.events) >= 2
    /\ upstream.events[1].type # upstream.events[2].type
    /\ stream.queue = <<>>
    /\ Len(stream.delivered) >= 2

\* C2: when the upstream raises after one event (no cancellation), the
\* outbound stream carries the frame of that event, then one error frame,
\* and is closed or closing, never errored.
C2_ErrorFrameThenClose ==
    (Streamed /\ ~stream.cancelled /\ upstream.ended = "raised"
       /\ Len(upstream.events) = 1) =>
        /\ Len(stream.frames) = 2
        /\ stream.frames[1] = SseFrame(upstream.events[1])
        /\ stream.frames[2].event = "error"
        /\ Outbound = stream.frames
        /\ stream.state = "closed" \/ stream.closeRequested

\* C3: a POST /v1/messages request whose credentials are missing or
\* malformed makes no upstream call and is answered 401 authentication_error.
C3_BadCredentials401 ==
    (req.method = "POST" /\ req.path = "/v1/messages"
       /\ (CredentialMissing \/ Malformed(SelectedValue))) =>
        /\ upstream.calls = 0
        /\ pc = "Responded" =>
             /\ response.status = 401
             /\ response.error.type = "authentication_error"

\* C4: a request that is not POST /v1/messages (OPTIONS aside) never reaches
\* credential extraction or the upstream and is answered 404 or 405.
C4_WrongRouteRejected ==
    (req.method # "OPTIONS"
       /\ (req.method # "POST" \/ req.path # "/v1/messages")) =>
        /\ ~creds.done
        /\ upstream.calls = 0
        /\ pc = "Responded" => response.status \in {404, 405}

\* C5: a POST /v1/messages request with valid credentials and a body that is
\* not JSON makes no upstream call and is answered 400 invalid_request_error.
C5_InvalidJson400 ==
    (req.method = "POST" /\ req.path = "/v1/messages"
       /\ SingleCredential /\ WellFormed(CredentialValue)
       /\ ~req.body.json) =>
        /\ upstream.calls = 0
        /\ pc = "Responded" =>
             /\ response.status = 400
             /\ response.error.type = "invalid_request_error"

\* C6: for a header value "Bearer cc:T!U", extraction yields token T and
\* base URL normalize(U), and the client is built with that pair.
C6_BearerExtraction ==
    (SingleCredential /\ BearerForm(CredentialValue)) =>
        /\ creds.done =>
             /\ creds.ok
             /\ creds.token = TokenHalf(CredentialValue)
             /\ creds.baseURL = SpecNormalize(UrlHalf(CredentialValue))
        /\ client.built =>
             /\ client.token = TokenHalf(CredentialValue)
             /\ client.baseURL = SpecNormalize(UrlHalf(CredentialValue))

\* C7: for a value with two or more "!" after its first "cc:" (both halves
\* non-empty), the token is the text between that "cc:" and the first "!",
\* and all that follows the first "!" is in the base URL.
C7_FirstBangSplits ==
    (SingleCredential /\ WellFormed(CredentialValue)
       /\ BangCount(CredentialValue) >= 2 /\ creds.done) =>
        /\ creds.ok
        /\ Trim(creds.token) = Trim(TokenHalf(CredentialValue))
        /\ Includes(creds.baseURL, StripSlash(Trim(UrlHalf(CredentialValue))))

\* C8: a value with "cc:" and "!" whose token half or base URL half is empty
\* after trimming never yields credentials.
C8_EmptyHalfFails ==
    (SingleCredential /\ Includes(CredentialValue, StrCc)
       /\ HasBang(CredentialValue) /\ EmptyHalf(CredentialValue)
       /\ creds.done) =>
        ~creds.ok

\* the case of C9: "cc:" with no "!" after it
NoBangValue == SingleCredential /\ Includes(CredentialValue, StrCc)
                 /\ ~HasBang(CredentialValue)

\* C9 as stated: a value with "cc:" and no "!" after it yields the token
\* that is everything after "cc:" (here a token that is not blank), with the
\* default base URL.
C9_NoBangSucceeds ==
    (NoBangValue /\ Trim(PayloadOf(CredentialValue)) # <<>> /\ creds.done) =>
        /\ creds.ok
        /\ creds.token = PayloadOf(CredentialValue)
        /\ creds.baseURL = DefaultBaseURL

\* C9 as amended: for a value with "cc:" and no "!" after it, the first
\* server of index.ts extracts the token that is everything after "cc:" and
\* builds its client with the default base URL; the second server extracts
\* nothing and answers 401; part_000 extracts nothing and answers 400 when no
\* "!" follows the first "cc:" it finds ignoring letter case.
C9_NoBangByServer ==
    NoBangValue =>
        /\ variant = "proxy" =>
             /\ creds.done =>
                  /\ creds.ok
                  /\ creds.token = PayloadOf(CredentialValue)
                  /\ creds.baseURL = DefaultBaseURL
             /\ client.built =>
                  client = NewAnthropic(PayloadOf(CredentialValue), DefaultBaseURL)
        /\ variant = "server" =>
             /\ ~creds.ok /\ ~client.built
             /\ creds.done => pc = "Responded" /\ response.status = 401
        /\ (variant = "part000"
              /\ ~HasBang(ToLowerCase(CredentialValue))) =>
             /\ ~creds.ok /\ ~client.built
             /\ creds.done => pc = "Responded" /\ response.status = 400

\* C9 witness: the first server has built its client from "cc:" and a
\* non-empty token with no "!"
C9_Witness ==
    /\ NoBangValue
    /\ PayloadOf(CredentialValue) # <<>>
    /\ variant = "proxy"
    /\ client.built

\* C10: streaming mode is taken exactly when the body's "stream" is the
\* boolean true.
C10_StreamOnlyOnTrue ==
    upstream.mode # "none" =>
        (upstream.mode = "streaming" <=> req.body.doc.stream = "true")

\* a response that reports a failure
FailureResponse == pc = "Responded" /\ response.status >= 400

\* a JSON body { type, error: { type, message } } made by the handler
ErrorEnvelopeShaped(r) ==
    /\ r.kind = "json"
    /\ r.type # "none"
    /\ r.hasError
    /\ r.error.type # "none"
    /\ r.error.message # "none"
    /\ ~r.raw

\* C11: every failure response has a JSON body shaped
\* { type, error: { type, message } }, never another shape and never the
\* upstream's own error object.
C11_FailuresAreEnvelopes ==
    FailureResponse => ErrorEnvelopeShaped(response)

\* C12: when messages.create fails (in buffered mode, or in streaming mode
\* before the event sequence is obtained), the response status is the status
\* the failure reports, or 500 when it reports none; the response is an error
\* body, not a document or an event stream, and the request is over after one
\* upstream call.
C12_UpstreamFailureStatus ==
    upstream.failure # NoFailure =>
        /\ pc = "Responded"
        /\ response.status = IF upstream.failure.status = 0
                             THEN 500 ELSE upstream.failure.status
        /\ response.kind = "json"
        /\ response.doc = NoReply
        /\ response.error.message = upstream.failure.message
        /\ stream.state = "none"
        /\ upstream.calls = 1

\* C12 witness: a streaming-mode call failed with no status and was answered
\* 500
C12_Witness ==
    /\ upstream.failure # NoFailure
    /\ upstream.failure.status = 0
    /\ upstream.mode = "streaming"
    /\ response.status = 500

\* C13: once the caller has cancelled the response stream, the handler asks
\* the upstream for no further event and attempts no further write.
C13_NoWorkAfterCancel ==
    [][stream.cancelled =>
         /\ upstream'.pulls = upstream.pulls
         /\ stream'.failedWrites = stream.failedWrites
         /\ stream'.frames = stream.frames]_vars

\* C14: at most one frame is enqueued and not yet taken by the consumer.
C14_AtMostOneUnread == Len(stream.queue) <= 1

\* the outbound stream is over: closed, or torn down by controller.error
Finished == stream.state \in {"closed", "errored"}

\* C15: once the upstream sequence has ended, by exhaustion or by raising,
\* the outbound stream accepts nothing more (it is over, or closing with the
\* frames it still holds) and is eventually over; once it is over, no frame
\* is added to it or delivered from it.
C15_StreamEventuallyClosed ==
    /\ [](upstream.ended # "no" => (Finished \/ stream.closeRequested))
    /\ (upstream.ended # "no") ~> Finished
    /\ [][Finished => /\ stream'.frames = stream.frames
                      /\ stream'.delivered = stream.delivered]_vars

\* C15 witness: the upstream raised after an event, the caller stayed, and
\* the stream is closed with both frames delivered
C15_Witness ==
    /\ upstream.ended = "raised"
    /\ ~stream.cancelled
    /\ stream.state = "closed"
    /\ Len(stream.delivered) >= 2

\* the frames of the events received
EventFrames == [i \in 1..Len(upstream.events) |-> SseFrame(upstream.events[i])]

\* the terminal marker of each streaming server: a ping frame and a close,
\* or a close alone
TerminalMarker(v) == IF v = "proxy" THEN <<PingFrame>> ELSE <<>>

\* the last frame the client received names an error
EndsWithErrorFrame ==
    /\ stream.delivered # <<>>
    /\ stream.delivered[Len(stream.delivered)].event = "error"

\* C16: a stream that is over and was not cancelled shows, after exhaustion,
\* every event's frame, then its server's terminal marker, the same whatever
\* the request, and a clean close; after an upstream failure it shows an
\* errored stream or a last frame naming the error, which no exhausted stream
\* shows.
C16_TerminalMarker ==
    (Streamed /\ ~stream.cancelled /\ Finished) =>
        /\ upstream.ended # "no"
        /\ upstream.ended = "exhausted" =>
             /\ stream.state = "closed"
             /\ stream.delivered = EventFrames \o TerminalMarker(variant)
             /\ ~EndsWithErrorFrame
        /\ upstream.ended = "raised" =>
             \/ stream.state = "errored"
             \/ stream.state = "closed" /\ EndsWithErrorFrame

\* C16 witness: an exhausted stream of the first server, closed, its last
\* frame the ping
C16_Witness ==
    /\ Streamed /\ ~stream.cancelled /\ Finished
    /\ upstream.ended = "exhausted"
    /\ variant = "proxy"
    /\ Len(upstream.events) >= 1
    /\ stream.delivered[Len(stream.delivered)] = PingFrame

\* the first header, in header order, that carries a non-empty value
SelectedHeader ==
    req.headers[Min({i \in 1..Len(req.headers) : req.headers[i].value # <<>>})]

\* C17: extraction takes the first non-empty value under authorization or
\* x-api-key and parses that value only: its result is the result for a
\* request carrying that header alone, it yields nothing when no header
\* carries a non-empty value, and it reports missing credentials only then.
C17_FirstNonEmptyValue ==
    creds.done =>
        /\ CredentialMissing => ~creds.ok
        /\ ~CredentialMissing =>
             /\ creds = ExtractCredentials(variant, <<SelectedHeader>>)
             /\ creds.failure # "missing"

C19_NonEmptyCredential ==
    (client.built \/ upstream.calls > 0) =>
        /\ client.token # <<>>
        /\ client.baseURL # <<>>

\* C20: the document passed to messages.create is the parsed body, the
\* "stream" field included.
C20_RequestIsBody ==
    upstream.calls > 0 => upstream.request = req.body.doc

====
